---- MODULE Spec2Model ----
(***************************************************************************)
(* The agent loop of LiteLLMAgent (src/Level-3/agent.py) and the tool      *)
(* dispatcher of ToolRegistry (src/Level-3/tools.py).                      *)
(*                                                                         *)
(* One run of LiteLLMAgent.run is modelled: the remote model and the tools *)
(* are the environment, which chooses every response, every stream chunk   *)
(* and every tool fault.                                                   *)
(***************************************************************************)
EXTENDS Integers, Sequences, FiniteSets, TLC

(***************************************************************************)
(* Python values.  None is a token different from every text the model     *)
(* handles; an absent integer (tc_delta.index is None) is NoIndex.         *)
(***************************************************************************)
None == "<None>"

NoIndex == 0 - 1

\* Python truthiness of an optional text: None and "" are falsy.
Truthy(text) == text # None /\ text # ""

(***************************************************************************)
(* Bounds of the model.                                                    *)
(***************************************************************************)
\* Largest explicit max_iterations argument passed to run.
MaxIter == 2

\* Largest number of chunks the model sends over all the streams of one run.
MaxChunks == 3

(***************************************************************************)
(* Program constants.                                                      *)
(***************************************************************************)
MAX_ITERATIONS == 10

system_prompt == "You are a helpful AI assistant"

FALLBACK == "I apologize, but I couldn't complete your request within the iteration limit."

\* The user messages a run is started with.
UserMessages == {"Tell me a joke and show me a dog picture"}

(***************************************************************************)
(* ToolRegistry.execute_tool and the callables it maps to.                 *)
(***************************************************************************)
\* Mutant of tool_map: trivia is advertised but not mapped.
tool_map_without_trivia == {"get_weather", "book_recs", "random_joke", "random_dog"}

\* The keys of tool_map.
tool_map == {"get_weather", "book_recs", "random_joke", "random_dog", "trivia"}

\* One entry of the list get_tool_definitions_openai_format returns; a tool
\* without a "required" key has required << >>.
ToolDefinition(name, description, properties, required) ==
    [type |-> "function",
     function |-> [name |-> name, description |-> description,
                   parameters |-> [type |-> "object", properties |-> properties,
                                   required |-> required]]]

\* ToolRegistry.get_tool_definitions_openai_format: a list literal.
get_tool_definitions_openai_format ==
    << ToolDefinition("get_weather",
           "Get current weather at coordinates via Open-Meteo API. Returns temperature, weather code, and wind speed.",
           { [name |-> "latitude", type |-> "number"],
             [name |-> "longitude", type |-> "number"] },
           << "latitude", "longitude" >>),
       ToolDefinition("book_recs",
           "Get book recommendations for a topic via Google Books API. Returns list of books with title, author, and year.",
           { [name |-> "topic", type |-> "string"],
             [name |-> "limit", type |-> "integer"] },
           << "topic" >>),
       ToolDefinition("random_joke",
           "Get a random safe joke from JokeAPI. Returns a single joke string.",
           {}, << >>),
       ToolDefinition("random_dog",
           "Get a random dog image URL from Dog CEO API. Returns an image URL.",
           {}, << >>),
       ToolDefinition("trivia",
           "Get a random multiple-choice trivia question from Open Trivia Database. Returns question, correct answer, and incorrect answers.",
           {}, << >>) >>

\* Mutant of ToolsArgument: the list is sent without its last entry.
ToolsArgumentShortened(definitions) ==
    IF definitions # << >>
       THEN SubSeq(definitions, 1, Len(definitions) - 1)
       ELSE << >>

\* tools=self.tool_definitions if self.tool_definitions else None (<< >>
\* stands for None).
ToolsArgument(definitions) ==
    IF definitions # << >> THEN definitions ELSE << >>

\* Keyword parameters a callable requires, and those it accepts.
Required(tool_name) ==
    CASE tool_name = "get_weather" -> {"latitude", "longitude"}
      [] tool_name = "book_recs" -> {"topic"}
      [] OTHER -> {}

Accepted(tool_name) ==
    CASE tool_name = "get_weather" -> {"latitude", "longitude"}
      [] tool_name = "book_recs" -> {"topic", "limit"}
      [] OTHER -> {}

\* What a callable returns when its network call succeeds, as a dict that
\* json.dumps can serialise; the payload text stands for the remote data.
Payload(tool_name) ==
    CASE tool_name = "random_joke" -> [key |-> "joke", text |-> "ha"]
      [] tool_name = "random_dog" -> [key |-> "message", text |-> "dog.jpg"]
      [] tool_name = "trivia" -> [key |-> "question", text |-> "q"]
      [] tool_name = "book_recs" -> [key |-> "topic", text |-> "t"]
      [] OTHER -> [key |-> "temperature_2m", text |-> "20"]

(***************************************************************************)
(* json.loads on the argument texts of the model.  A parsed value is a     *)
(* dict (with its key set) or a list; every other text of the model is     *)
(* malformed and json.loads raises.                                        *)
(***************************************************************************)
json_loads(text) ==
    CASE text = "{}" -> [raised |-> FALSE, type |-> "dict", keys |-> {}, len |-> 0]
      [] text = "{\"a\": 1}" -> [raised |-> FALSE, type |-> "dict", keys |-> {"a"}, len |-> 1]
      [] text = "[1]" -> [raised |-> FALSE, type |-> "list", keys |-> {}, len |-> 1]
      [] OTHER -> [raised |-> TRUE, type |-> "error", keys |-> {}, len |-> 0]

\* The empty dict literal {}.
EmptyDict == [raised |-> FALSE, type |-> "dict", keys |-> {}, len |-> 0]

\* Mutant of ParseArguments: every text goes to json.loads.
ParseArgumentsAlways(arguments) == json_loads(arguments)

\* tool_args = json.loads(arguments) if arguments else {}
ParseArguments(arguments) ==
    IF Truthy(arguments) THEN json_loads(arguments) ELSE EmptyDict

\* json.dumps of a result dict: {"error": msg} or a tool's payload.
json_dumps(result) ==
    "{\"" \o result.key \o "\": \"" \o result.text \o "\"}"

ErrorResult(msg) == [key |-> "error", text |-> msg]

\* tool_map[tool_name](**tool_input): a TypeError when tool_input is no
\* mapping or its keys do not fit the signature; otherwise the network call,
\* which the environment lets fail (fault) or succeed.
CallTool(tool_name, tool_input, fault) ==
    IF tool_input.type # "dict"
        THEN [raised |-> TRUE, text |-> "argument after ** must be a mapping"]
    ELSE IF ~(Required(tool_name) \subseteq tool_input.keys
              /\ tool_input.keys \subseteq Accepted(tool_name))
        THEN [raised |-> TRUE, text |-> "unexpected keyword argument"]
    ELSE IF fault
        THEN [raised |-> TRUE, text |-> "timeout"]
    ELSE [raised |-> FALSE, result |-> Payload(tool_name)]

\* Mutant of execute_tool: no membership test, the name goes to the call.
execute_tool_unchecked(tool_name, tool_input, fault) ==
    LET r == CallTool(tool_name, tool_input, fault)
    IN  IF r.raised
            THEN [raised |-> FALSE,
                  result |-> ErrorResult("Tool execution failed: " \o r.text)]
            ELSE [raised |-> FALSE, result |-> r.result]

\* Mutant of execute_tool: no try around the callable, its fault propagates.
execute_tool_uncaught(tool_name, tool_input, fault) ==
    IF tool_name \notin tool_map
        THEN [raised |-> TRUE, text |-> "Unknown tool: " \o tool_name]
        ELSE CallTool(tool_name, tool_input, fault)

\* ToolRegistry.execute_tool: raises for an unknown name, converts every
\* fault of the callable into an {error} result.
execute_tool(tool_name, tool_input, fault) ==
    IF tool_name \notin tool_map
        THEN [raised |-> TRUE, text |-> "Unknown tool: " \o tool_name]
    ELSE LET r == CallTool(tool_name, tool_input, fault)
         IN  IF r.raised
                 THEN [raised |-> FALSE,
                       result |-> ErrorResult("Tool execution failed: " \o r.text)]
                 ELSE [raised |-> FALSE, result |-> r.result]

\* The try/except around execute_tool in the agent: a raised fault becomes
\* {"error": str(e)}.
ToolResult(tool_name, tool_input, fault) ==
    LET r == execute_tool(tool_name, tool_input, fault)
    IN  IF r.raised THEN ErrorResult(r.text) ELSE r.result

\* The tool-role message appended for a tool call.
ToolMessage(id, tool_name, result) ==
    [role |-> "tool", tool_call_id |-> id, name |-> tool_name,
     content |-> json_dumps(result)]

(***************************************************************************)
(* The responses of the remote model.                                      *)
(***************************************************************************)
ToolCall(id, name, arguments) ==
    [id |-> id, type |-> "function",
     function |-> [name |-> name, arguments |-> arguments]]

\* A complete (non-streaming) message: content is a text or None, tool_calls
\* a list (<< >> stands for None and for the empty list, both falsy).
Message(content, tool_calls) == [content |-> content, tool_calls |-> tool_calls]

Responses ==
    { Message("hi", << >>),
      Message(None, << >>),
      Message(None, << ToolCall("c1", "random_joke", "") >>),
      Message("ok", << ToolCall("c1", "random_joke", "{}"),
                        ToolCall("c2", "random_dog", "") >>),
      Message(None, << ToolCall("c1", "nope", "[1]"),
                       ToolCall("c2", "random_joke", "{\"a\": 1}") >>),
      Message(None, << ToolCall("c1", "random_dog", None),
                       ToolCall("c2", "get_weather", "{bad") >>) }

\* The responses of a run that uses the default cap.
PlainResponses ==
    { Message("hi", << >>),
      Message(None, << ToolCall("c1", "random_joke", "") >>) }

\* One entry of delta.tool_calls; function None is the same to the code as a
\* function whose name and arguments are both None.
Delta(index, id, name, arguments) ==
    [index |-> index, id |-> id,
     function |-> [name |-> name, arguments |-> arguments]]

\* One chunk of a stream: choices is FALSE for a chunk without choices.
Chunk(content, tool_calls) ==
    [choices |-> TRUE, content |-> content, tool_calls |-> tool_calls]

Chunks ==
    { Chunk("h", << >>),
      Chunk("i", << >>),
      Chunk(None, << Delta(0, "c1", "random_joke", None) >>),
      Chunk(None, << Delta(0, None, None, "{") >>),
      Chunk(None, << Delta(0, None, None, "}") >>),
      Chunk(None, << Delta(NoIndex, "c9", "trivia", "{}"),
                     Delta(1, "c2", "random_dog", "") >>),
      Chunk("", << Delta(0, "c2", "random_", "[1]") >>),
      Chunk(None, << Delta(0, None, "joke", None) >>),
      [choices |-> FALSE, content |-> None, tool_calls |-> << >>] }

\* The chunks of a run that uses the default cap.
PlainChunks ==
    { Chunk("h", << >>),
      Chunk(None, << Delta(0, "c1", "random_joke", None) >>) }

(***************************************************************************)
(* The state of one agent and one run on it.                               *)
(***************************************************************************)
VARIABLES
    verbose,              \* self.verbose
    stream,               \* run's stream argument
    arg_max_iterations,   \* run's max_iterations argument: << >> is None
    max_iterations,       \* the local max_iterations, after the default
    model_responses,      \* what the remote model may answer in this run
    model_chunks,         \* the chunks the remote model may stream in this run
    pc,                   \* "idle", "loop", "stream", "tools", "done"
    iteration,            \* the local iteration
    messages,             \* the Conversation
    message,              \* response.choices[0].message of the last model call
    accumulated_content,  \* streaming: the content buffer
    tool_calls_data,      \* streaming: the accumulator's slots
    tool_idx,             \* position of the for loop over the tool calls
    outcome,              \* "none", "final", "capped", "error"
    raised,               \* the exception that left run, or None
    returned,             \* the value run returned, or None
    yielded,              \* streaming: the chunks yielded to the consumer
    model_calls,          \* number of chat.completions.create calls
    dispatched,           \* the execute_tool calls, in order
    deltas,               \* the chunks received on the current stream
    chunks_sent,          \* chunks received over all streams of the run
    current_run,          \* which run of the agent the variables above hold
    suspended,            \* the locals of the other run on the same agent
    tool_definitions,     \* self.tool_definitions
    tools_sent,           \* the tools arguments the agent's model calls were sent
    \* agent_fun.py, main
    fun_pc,               \* "input", "step", "exited", "crashed"
    history,              \* history
    step,                 \* the step of the for loop that runs next (0-based)
    action,               \* action, as the last step that got a decision set it
    decisions,            \* llm_json calls made for the current user message
    call_tool_log,        \* tool names sent to session.call_tool for it
    printed,              \* the answer printed ("Agent: ...") for it, or None
    turns,                \* user messages read so far
    odd,                  \* events so far beyond the plain course of a session
    \* agent_simple.py, main
    simple_pc,            \* "input", "calls", "chat", "exited", "crashed"
    user,                 \* the request read by input()
    simple_tool_calls,    \* tool_calls
    results,              \* results
    call_idx,             \* position of the for loop over tool_calls
    called,               \* tool names sent to session.call_tool for the request
    chats,                \* chat() calls made for the request
    answered,             \* whether an answer was printed for the request
    requests              \* requests read so far

\* The variables of agent_fun.py and of agent_simple.py.
fun_vars ==
    << fun_pc, history, step, action, decisions, call_tool_log, printed, turns,
       odd >>

simple_vars ==
    << simple_pc, user, simple_tool_calls, results, call_idx, called, chats, answered,
       requests >>

\* The variables of the Level-3 agent.
agent_vars ==
    << verbose, stream, arg_max_iterations, max_iterations, model_responses,
       model_chunks, pc, iteration, messages, message, accumulated_content,
       tool_calls_data, tool_idx, outcome, raised, returned, yielded,
       model_calls, dispatched, deltas, chunks_sent, current_run, suspended,
       tool_definitions, tools_sent >>

vars == << agent_vars, fun_vars, simple_vars >>

(***************************************************************************)
(* Everything a run keeps is an argument or a local of run,                *)
(* _run_non_streaming or _run_streaming (for a streaming run: of the       *)
(* generator's frame); the agent instance holds only what __init__ set.    *)
(* RunLocals is that frame, together with what the run's caller and the    *)
(* run's model connection have seen.                                       *)
(***************************************************************************)
RunLocals ==
    [ stream |-> stream, arg_max_iterations |-> arg_max_iterations,
      max_iterations |-> max_iterations, model_responses |-> model_responses,
      model_chunks |-> model_chunks, pc |-> pc, iteration |-> iteration,
      messages |-> messages, message |-> message,
      accumulated_content |-> accumulated_content,
      tool_calls_data |-> tool_calls_data, tool_idx |-> tool_idx,
      outcome |-> outcome, raised |-> raised, returned |-> returned,
      yielded |-> yielded, model_calls |-> model_calls,
      dispatched |-> dispatched, deltas |-> deltas, chunks_sent |-> chunks_sent ]

\* The max_iterations arguments of run: None, or an integer.
MaxIterationsArgs == { << >> } \cup { << n >> : n \in 0..MaxIter }

\* max_iterations or AgentConfig.MAX_ITERATIONS
OrDefault(arg) ==
    IF arg = << >> \/ arg[1] = 0 THEN MAX_ITERATIONS ELSE arg[1]

NoMessage == Message(None, << >>)

\* agent_fun.py: main before the first input(), history holding the system
\* entry.
InitFun ==
    /\ fun_pc = "input"
    /\ history = << [role |-> "system", content |-> "SYSTEM"] >>
    /\ step = 0
    /\ action = None
    /\ decisions = 0
    /\ call_tool_log = << >>
    /\ printed = None
    /\ turns = 0
    /\ odd = 0

\* agent_simple.py: main before the first input().
InitSimple ==
    /\ simple_pc = "input"
    /\ user = ""
    /\ simple_tool_calls = << >>
    /\ results = << >>
    /\ call_idx = 0
    /\ called = << >>
    /\ chats = 0
    /\ answered = FALSE
    /\ requests = 0

Init ==
    /\ verbose \in BOOLEAN
    /\ stream = FALSE
    /\ arg_max_iterations = << >>
    /\ max_iterations = 0
    /\ model_responses = {}
    /\ model_chunks = {}
    /\ pc = "idle"
    /\ iteration = 0
    /\ messages = << >>
    /\ message = NoMessage
    /\ accumulated_content = ""
    /\ tool_calls_data = << >>
    /\ tool_idx = 0
    /\ outcome = "none"
    /\ raised = None
    /\ returned = None
    /\ yielded = << >>
    /\ model_calls = 0
    /\ dispatched = << >>
    /\ deltas = << >>
    /\ chunks_sent = 0
    /\ current_run = 1
    /\ suspended = RunLocals
    /\ tool_definitions = get_tool_definitions_openai_format
    /\ tools_sent = {}
    /\ InitFun
    /\ InitSimple

\* When verbose, the generator yields the progress lines it would print.
VerboseYield(chunk) == IF verbose THEN << chunk >> ELSE << >>

(***************************************************************************)
(* run(user_message, max_iterations, stream): up to the loop head.  A run  *)
(* under the default cap is explored against the plain model.              *)
(***************************************************************************)
Run(user_message, arg, s) ==
    /\ pc = "idle"
    /\ stream' = s
    /\ arg_max_iterations' = arg
    /\ max_iterations' = OrDefault(arg)
    /\ model_responses' =
           IF OrDefault(arg) = MAX_ITERATIONS THEN PlainResponses ELSE Responses
    /\ model_chunks' =
           IF OrDefault(arg) = MAX_ITERATIONS THEN PlainChunks ELSE Chunks
    /\ messages' = << [role |-> "system", content |-> system_prompt],
                      [role |-> "user", content |-> user_message] >>
    /\ yielded' = IF s THEN VerboseYield([kind |-> "processing"]) ELSE << >>
    /\ iteration' = 0
    /\ pc' = "loop"
    /\ UNCHANGED << fun_vars, simple_vars, current_run, suspended, verbose, tool_definitions, tools_sent, message, accumulated_content, tool_calls_data,
                    tool_idx, outcome, raised, returned, model_calls,
                    dispatched, deltas, chunks_sent >>

\* The value returned (non-streaming) when the while loop ends.
CapReturn == FALLBACK

\* The chunks yielded (streaming) when the while loop ends.
CapYield == VerboseYield([kind |-> "cap_note", n |-> max_iterations])

\* Mutant of LoopGuard: the loop runs once more at the cap.
LoopGuardInclusive == iteration <= max_iterations

\* while iteration < max_iterations
LoopGuard == iteration < max_iterations

\* The while loop ends: max iterations reached.
Capped ==
    /\ pc = "loop"
    /\ ~LoopGuard
    /\ pc' = "done"
    /\ outcome' = "capped"
    /\ returned' = IF stream THEN None ELSE CapReturn
    /\ yielded' = IF stream THEN yielded \o CapYield ELSE yielded
    /\ UNCHANGED << fun_vars, simple_vars, current_run, suspended, verbose, tool_definitions, tools_sent, stream, arg_max_iterations, max_iterations,
                    model_responses, model_chunks, iteration, messages, message,
                    accumulated_content, tool_calls_data, tool_idx, raised,
                    model_calls, dispatched, deltas, chunks_sent >>

\* The assistant message appended for a response with tool calls.
AssistantMessage(content, tool_calls) ==
    [role |-> "assistant", content |-> content, tool_calls |-> tool_calls]

\* Mutant of MessagesAfterResponse: the final answer is appended too.
MessagesAfterResponseAlways(msgs, content, tool_calls, has_tool_calls) ==
    Append(msgs, AssistantMessage(content, tool_calls))

\* Mutant of MessagesAfterResponse: the assistant message is put in front.
MessagesAfterResponsePrepended(msgs, content, tool_calls, has_tool_calls) ==
    IF has_tool_calls
       THEN << AssistantMessage(content, tool_calls) >> \o msgs
       ELSE msgs

\* Mutant of FinalText: the content is returned as it is, None included.
FinalTextUnchanged(content) == content

\* The Conversation after a complete response: the assistant message is
\* appended when the response has tool calls, nothing when it is final.
MessagesAfterResponse(msgs, content, tool_calls, has_tool_calls) ==
    IF has_tool_calls
       THEN Append(msgs, AssistantMessage(content, tool_calls))
       ELSE msgs

\* final_text = message.content or ""
FinalText(content) == IF Truthy(content) THEN content ELSE ""

(***************************************************************************)
(* Non-streaming: one model call that succeeds, up to the return or to the *)
(* start of the for loop over the tool calls.                              *)
(***************************************************************************)
CallModel(r) ==
    /\ pc = "loop"
    /\ ~stream
    /\ LoopGuard
    /\ r \in model_responses
    /\ iteration' = iteration + 1
    /\ model_calls' = model_calls + 1
    /\ message' = r
    /\ messages' = MessagesAfterResponse(messages, r.content, r.tool_calls,
                                         r.tool_calls # << >>)
    /\ IF r.tool_calls # << >>
          THEN /\ tool_idx' = 1
               /\ pc' = "tools"
               /\ UNCHANGED << outcome, returned >>
          ELSE /\ returned' = FinalText(r.content)
               /\ outcome' = "final"
               /\ pc' = "done"
               /\ UNCHANGED tool_idx
    /\ tools_sent' = tools_sent \cup { ToolsArgument(tool_definitions) }
    /\ UNCHANGED << fun_vars, simple_vars, current_run, suspended, verbose, tool_definitions, stream, arg_max_iterations, max_iterations,
                    model_responses, model_chunks, accumulated_content,
                    tool_calls_data, raised, yielded, dispatched, deltas,
                    chunks_sent >>

\* Mutant of Raise: the error is swallowed and the loop goes on.
RaiseSwallowed(exception, before, n) ==
    /\ pc' = "loop"
    /\ outcome' = outcome
    /\ raised' = raised
    /\ yielded' = yielded

\* except Exception: ... raise, in iteration n, after the chunks `before`
\* have been yielded in the same step.
Raise(exception, before, n) ==
    /\ pc' = "done"
    /\ outcome' = "error"
    /\ raised' = exception
    /\ yielded' = IF stream
                     THEN yielded \o before
                                  \o VerboseYield([kind |-> "error_note", n |-> n])
                     ELSE yielded

\* chat.completions.create raises (either mode).
CallModelFails ==
    /\ pc = "loop"
    /\ LoopGuard
    /\ iteration' = iteration + 1
    /\ model_calls' = model_calls + 1
    /\ Raise("ModelRequestError",
             VerboseYield([kind |-> "iteration", n |-> iteration + 1]),
             iteration + 1)
    /\ tools_sent' = tools_sent \cup { ToolsArgument(tool_definitions) }
    /\ UNCHANGED << fun_vars, simple_vars, current_run, suspended, verbose, tool_definitions, stream, arg_max_iterations, max_iterations,
                    model_responses, model_chunks, messages, message,
                    accumulated_content, tool_calls_data, tool_idx, returned,
                    dispatched, deltas, chunks_sent >>

\* The entry of the dispatch log for one execute_tool call.
Dispatch(tool_name, tool_input) == [name |-> tool_name, input |-> tool_input]

\* Mutant of NextToolIdx: every second tool call is skipped.
NextToolIdxSkipping(idx, n) == idx + 2

\* Position of the for loop after the tool call at idx of n has been handled.
NextToolIdx(idx, n) == idx + 1

\* Mutant of CurrentToolCall: the list is walked from its end.
CurrentToolCallReversed(tool_calls, idx) == tool_calls[Len(tool_calls) + 1 - idx]

\* for tool_call in ...: the tool call the pass at position idx handles.
CurrentToolCall(tool_calls, idx) == tool_calls[idx]

(***************************************************************************)
(* Non-streaming: one pass of the for loop over message.tool_calls.        *)
(***************************************************************************)
ExecuteTool(fault) ==
    /\ pc = "tools"
    /\ ~stream
    /\ LET tool_call == CurrentToolCall(message.tool_calls, tool_idx)
           tool_name == tool_call.function.name
           tool_args == ParseArguments(tool_call.function.arguments)
           n == Len(message.tool_calls)
       IN  IF tool_args.raised
              THEN /\ Raise("JSONDecodeError", << >>, iteration)
                   /\ UNCHANGED << messages, dispatched, tool_idx >>
              ELSE /\ messages' = Append(messages,
                          ToolMessage(tool_call.id, tool_name,
                                      ToolResult(tool_name, tool_args, fault)))
                   /\ dispatched' = Append(dispatched, Dispatch(tool_name, tool_args))
                   /\ tool_idx' = NextToolIdx(tool_idx, n)
                   /\ pc' = IF NextToolIdx(tool_idx, n) > n THEN "loop" ELSE "tools"
                   /\ UNCHANGED << outcome, raised, yielded >>
    /\ UNCHANGED << fun_vars, simple_vars, current_run, suspended, verbose, tool_definitions, tools_sent, stream, arg_max_iterations, max_iterations,
                    model_responses, model_chunks, iteration, message,
                    accumulated_content, tool_calls_data, returned,
                    model_calls, deltas, chunks_sent >>

(***************************************************************************)
(* Streaming: the accumulator.                                             *)
(***************************************************************************)
\* A slot as the while loop creates it.
EmptySlot == ToolCall(None, "", "")

\* Mutant of EnsureSlots: the while loop runs once more than needed.
EnsureSlotsOneMore(data, index) ==
    IF Len(data) <= index
       THEN data \o [k \in 1..(index + 2 - Len(data)) |-> EmptySlot]
       ELSE data

\* while len(tool_calls_data) <= tc_delta.index: tool_calls_data.append(...)
EnsureSlots(data, index) ==
    IF Len(data) <= index
       THEN data \o [k \in 1..(index + 1 - Len(data)) |-> EmptySlot]
       ELSE data

\* if tc_delta.id: current_tool_call["id"] = tc_delta.id
SetId(slot, id) ==
    IF Truthy(id) THEN [slot EXCEPT !.id = id] ELSE slot

\* if tc_delta.function.name: current_tool_call["function"]["name"] = ...
SetName(slot, name) ==
    IF Truthy(name) THEN [slot EXCEPT !.function.name = name] ELSE slot

\* Mutant of AddArguments: the delta replaces the text.
AddArgumentsAssigned(slot, arguments) ==
    IF Truthy(arguments)
       THEN [slot EXCEPT !.function.arguments = arguments]
       ELSE slot

\* if tc_delta.function.arguments: ...["arguments"] += tc_delta.function.arguments
AddArguments(slot, arguments) ==
    IF Truthy(arguments)
       THEN [slot EXCEPT !.function.arguments = @ \o arguments]
       ELSE slot

\* Mutant of ApplyDelta: the delta goes to the slot created last.
ApplyDeltaArrival(data, tc_delta) ==
    IF tc_delta.index = NoIndex
       THEN data
       ELSE LET slots == EnsureSlots(data, tc_delta.index)
                i == Len(slots)
            IN  [slots EXCEPT ![i] =
                    AddArguments(SetName(SetId(@, tc_delta.id),
                                         tc_delta.function.name),
                                 tc_delta.function.arguments)]

\* The body of the loop over delta.tool_calls for one tc_delta.
ApplyDelta(data, tc_delta) ==
    IF tc_delta.index = NoIndex
       THEN data
       ELSE LET slots == EnsureSlots(data, tc_delta.index)
                i == tc_delta.index + 1
            IN  [slots EXCEPT ![i] =
                    AddArguments(SetName(SetId(@, tc_delta.id),
                                         tc_delta.function.name),
                                 tc_delta.function.arguments)]

\* for tc_delta in delta.tool_calls
RECURSIVE ApplyDeltas(_, _)
ApplyDeltas(data, tc_deltas) ==
    IF tc_deltas = << >>
       THEN data
       ELSE ApplyDeltas(ApplyDelta(data, Head(tc_deltas)), Tail(tc_deltas))

\* if delta.content: accumulated_content += delta.content
AddContent(content, delta_content) ==
    IF Truthy(delta_content) THEN content \o delta_content ELSE content

\* Mutant of ContentYield: the delta is yielded twice.
ContentYieldTwice(delta_content) ==
    IF Truthy(delta_content)
       THEN << [kind |-> "content", text |-> delta_content],
               [kind |-> "content", text |-> delta_content] >>
       ELSE << >>

\* if delta.content: yield delta.content
ContentYield(delta_content) ==
    IF Truthy(delta_content)
       THEN << [kind |-> "content", text |-> delta_content] >>
       ELSE << >>

\* Streaming: chat.completions.create(stream=True) returns the stream.
StreamOpen ==
    /\ pc = "loop"
    /\ stream
    /\ LoopGuard
    /\ iteration' = iteration + 1
    /\ model_calls' = model_calls + 1
    /\ yielded' = yielded \o VerboseYield([kind |-> "iteration", n |-> iteration + 1])
    /\ accumulated_content' = ""
    /\ tool_calls_data' = << >>
    /\ deltas' = << >>
    /\ pc' = "stream"
    /\ tools_sent' = tools_sent \cup { ToolsArgument(tool_definitions) }
    /\ UNCHANGED << fun_vars, simple_vars, current_run, suspended, verbose, tool_definitions, stream, arg_max_iterations, max_iterations,
                    model_responses, model_chunks, messages, message, tool_idx,
                    outcome, raised, returned, dispatched, chunks_sent >>

\* Streaming: one pass of `for chunk in response`.
ReadChunk(chunk) ==
    /\ pc = "stream"
    /\ chunk \in model_chunks
    /\ chunks_sent' = chunks_sent + 1
    /\ deltas' = Append(deltas, chunk)
    /\ IF chunk.choices
          THEN /\ accumulated_content' = AddContent(accumulated_content, chunk.content)
               /\ yielded' = yielded \o ContentYield(chunk.content)
               /\ tool_calls_data' = ApplyDeltas(tool_calls_data, chunk.tool_calls)
          ELSE UNCHANGED << accumulated_content, yielded, tool_calls_data >>
    /\ UNCHANGED << fun_vars, simple_vars, current_run, suspended, verbose, tool_definitions, tools_sent, stream, arg_max_iterations, max_iterations,
                    model_responses, model_chunks, pc, iteration, messages,
                    message, tool_idx, outcome, raised, returned, model_calls,
                    dispatched >>

\* A chunk arrives, while the run has received fewer than MaxChunks chunks.
StreamChunk(chunk) ==
    /\ chunks_sent < MaxChunks
    /\ ReadChunk(chunk)

\* Streaming: the stream raises while it is read.
StreamFails ==
    /\ pc = "stream"
    /\ Raise("ModelRequestError", << >>, iteration)
    /\ UNCHANGED << fun_vars, simple_vars, current_run, suspended, verbose, tool_definitions, tools_sent, stream, arg_max_iterations, max_iterations,
                    model_responses, model_chunks, iteration, messages, message,
                    accumulated_content, tool_calls_data, tool_idx, returned,
                    model_calls, dispatched, deltas, chunks_sent >>

\* any(tc["id"] for tc in tool_calls_data)
AnyId(data) == \E i \in 1..Len(data) : Truthy(data[i].id)

\* if tool_calls_data and any(tc["id"] for tc in tool_calls_data)
GotToolCalls(data) == data # << >> /\ AnyId(data)

\* Streaming: the stream ends; the three branches after the for loop.
StreamEnd ==
    /\ pc = "stream"
    /\ messages' = MessagesAfterResponse(messages, accumulated_content,
                                         tool_calls_data,
                                         GotToolCalls(tool_calls_data))
    /\ IF GotToolCalls(tool_calls_data)
          THEN /\ yielded' = yielded \o
                      << [kind |-> "tools_open", n |-> Len(tool_calls_data)] >>
               /\ tool_idx' = 1
               /\ pc' = "tools"
               /\ UNCHANGED outcome
       ELSE IF Truthy(accumulated_content)
          THEN /\ yielded' = yielded \o VerboseYield([kind |-> "final_note"])
               /\ pc' = "done"
               /\ outcome' = "final"
               /\ UNCHANGED tool_idx
          ELSE /\ pc' = "loop"
               /\ UNCHANGED << yielded, tool_idx, outcome >>
    /\ UNCHANGED << fun_vars, simple_vars, current_run, suspended, verbose, tool_definitions, tools_sent, stream, arg_max_iterations, max_iterations,
                    model_responses, model_chunks, iteration, message,
                    accumulated_content, tool_calls_data, raised, returned,
                    model_calls, dispatched, deltas, chunks_sent >>

\* The chunks yielded for one tool card before execute_tool is called.
CardYield(idx, tool_name, tool_args) ==
    << [kind |-> "card", n |-> idx, name |-> tool_name],
       IF tool_args.len > 0 THEN [kind |-> "parameters"]
                            ELSE [kind |-> "no_parameters"] >>

\* The chunks yielded once execute_tool has returned or raised.
StatusYield(result) ==
    << [kind |-> "status", failed |-> result.key = "error"] >>

(***************************************************************************)
(* Streaming: one pass of the for loop over tool_calls_data.               *)
(***************************************************************************)
StreamExecuteTool(fault) ==
    /\ pc = "tools"
    /\ stream
    /\ LET tool_call == CurrentToolCall(tool_calls_data, tool_idx)
           tool_name == tool_call.function.name
           tool_args == ParseArguments(tool_call.function.arguments)
           n == Len(tool_calls_data)
           result == ToolResult(tool_name, tool_args, fault)
       IN  IF tool_args.raised
              THEN /\ Raise("JSONDecodeError", << >>, iteration)
                   /\ UNCHANGED << messages, dispatched, tool_idx >>
           ELSE IF tool_args.len > 0 /\ tool_args.type # "dict"
              \* for k, v in tool_args.items() on a value that is no dict
              THEN /\ Raise("AttributeError",
                            CardYield(tool_idx, tool_name, tool_args), iteration)
                   /\ UNCHANGED << messages, dispatched, tool_idx >>
              ELSE /\ messages' = Append(messages,
                          ToolMessage(tool_call.id, tool_name, result))
                   /\ dispatched' = Append(dispatched, Dispatch(tool_name, tool_args))
                   /\ tool_idx' = NextToolIdx(tool_idx, n)
                   /\ pc' = IF NextToolIdx(tool_idx, n) > n THEN "loop" ELSE "tools"
                   /\ yielded' = yielded \o CardYield(tool_idx, tool_name, tool_args)
                                    \o StatusYield(result)
                                    \o (IF NextToolIdx(tool_idx, n) > n
                                           THEN << [kind |-> "tools_close"] >>
                                           ELSE << >>)
                   /\ UNCHANGED << outcome, raised >>
    /\ UNCHANGED << fun_vars, simple_vars, current_run, suspended, verbose, tool_definitions, tools_sent, stream, arg_max_iterations, max_iterations,
                    model_responses, model_chunks, iteration, message,
                    accumulated_content, tool_calls_data, returned,
                    model_calls, deltas, chunks_sent >>

Next ==
    \/ \E user_message \in UserMessages, arg \in MaxIterationsArgs, s \in BOOLEAN :
          Run(user_message, arg, s)
    \/ Capped
    \/ \E r \in Responses : CallModel(r)
    \/ CallModelFails
    \/ \E fault \in BOOLEAN : ExecuteTool(fault)
    \/ StreamOpen
    \/ \E chunk \in Chunks : StreamChunk(chunk)
    \/ StreamFails
    \/ StreamEnd
    \/ \E fault \in BOOLEAN : StreamExecuteTool(fault)

Spec == Init /\ [][Next]_vars

(***************************************************************************)
(* Helpers of the properties.                                              *)
(***************************************************************************)
\* The run was started with an integer max_iterations argument.
HasCapArg == pc # "idle" /\ arg_max_iterations # << >>

\* Number of assistant messages of a Conversation.
NumAssistant(msgs) ==
    Cardinality({ i \in 1..Len(msgs) : msgs[i].role = "assistant" })

\* A chunk of the log that carries tool-call deltas.
HasToolDeltas(log) ==
    \E i \in 1..Len(log) : log[i].choices /\ log[i].tool_calls # << >>

\* The texts of the content chunks yielded so far, joined in order.
RECURSIVE YieldedText(_)
YieldedText(ys) ==
    IF ys = << >>
       THEN ""
       ELSE (IF Head(ys).kind = "content" THEN Head(ys).text ELSE "")
            \o YieldedText(Tail(ys))

\* The last model call returned a complete response without tool calls.
FinalResponseReceived ==
    /\ model_calls > 0
    /\ raised # "ModelRequestError"
    /\ IF stream
          THEN pc # "stream" /\ ~HasToolDeltas(deltas)
          ELSE message.tool_calls = << >>

(***************************************************************************)
(* C1: a run with iteration cap maxIterations makes at most                *)
(* maxIterations + 1 model calls and, once over, has ended in a final      *)
(* answer, in the capped fallback or in a propagated error.                *)
(* Stated as written; the code violates it for max_iterations = 0.         *)
(***************************************************************************)
C1_BoundedModelCalls ==
    /\ HasCapArg => model_calls <= arg_max_iterations[1] + 1
    /\ pc = "done" => outcome \in {"final", "capped", "error"}

(***************************************************************************)
(* C2: a run started with maxIterations = 0 makes no model call and        *)
(* returns the fixed fallback text.  Stated as written; the code takes     *)
(* the argument 0 for a missing argument and runs under the default cap.   *)
(***************************************************************************)
C2_ZeroCapNoModelCall ==
    (HasCapArg /\ arg_max_iterations[1] = 0) =>
        /\ model_calls = 0
        /\ pc = "done" => (outcome = "capped" /\ (~stream => returned = FALLBACK))

(***************************************************************************)
(* C3: in either mode, once a model response without tool calls has been   *)
(* received the run is over with that response's text as the final answer  *)
(* (an empty text included): the value returned, or, for a first response *)
(* that is streamed, the text of the chunks yielded.  Stated as written;   *)
(* the streaming loop goes on to another iteration when the text is empty. *)
(***************************************************************************)
C3_NoToolCallsIsFinal ==
    FinalResponseReceived =>
        /\ pc = "done"
        /\ outcome = "final"
        /\ IF stream
              THEN model_calls = 1 => YieldedText(yielded) = accumulated_content
              ELSE returned = FinalText(message.content)

(***************************************************************************)
(* C4: when the run ends at the cap after every response requested tools,  *)
(* its output is the fixed fallback string: the value returned, or the     *)
(* text chunk that ends the streamed sequence.  Stated as written; the     *)
(* streaming loop yields no fallback text.                                 *)
(***************************************************************************)
C4_CappedOutputIsFallback ==
    (outcome = "capped" /\ NumAssistant(messages) = model_calls) =>
        IF stream
           THEN /\ yielded # << >>
                /\ yielded[Len(yielded)] = [kind |-> "content", text |-> FALLBACK]
           ELSE returned = FALLBACK

(***************************************************************************)
(* C5: a step in which a model call fails ends the run with the error      *)
(* propagated: nothing is returned in its place, the Conversation and the  *)
(* dispatch log are untouched, and once the error is raised no model call  *)
(* and no tool dispatch follows.                                           *)
(***************************************************************************)
C5_ModelErrorPropagates ==
    [][ /\ (CallModelFails \/ StreamFails) =>
              /\ pc' = "done"
              /\ outcome' = "error"
              /\ raised' = "ModelRequestError"
              /\ returned' = None
              /\ messages' = messages
              /\ dispatched' = dispatched
        /\ raised = "ModelRequestError" =>
              /\ model_calls' = model_calls
              /\ dispatched' = dispatched
              /\ outcome' = "error" ]_vars

\* A model call has failed in the second iteration, after a tool dispatch.
C5_Witness ==
    /\ raised = "ModelRequestError"
    /\ model_calls = 2
    /\ Len(dispatched) > 0
    /\ pc = "done"

\* From position p on, the Conversation is a sequence of blocks: an
\* assistant message followed by one tool-role message per tool call it
\* lists, with the ids of the list, in the order of the list.
RECURSIVE Answered(_, _)
Answered(msgs, p) ==
    IF p > Len(msgs)
       THEN TRUE
       ELSE /\ msgs[p].role = "assistant"
            /\ LET n == Len(msgs[p].tool_calls)
               IN  /\ p + n <= Len(msgs)
                   /\ \A k \in 1..n :
                         /\ msgs[p + k].role = "tool"
                         /\ msgs[p + k].tool_call_id = msgs[p].tool_calls[k].id
                   /\ Answered(msgs, p + n + 1)

\* A model call is about to be made, and it is not the first of the run.
AtLaterModelCall == pc = "loop" /\ LoopGuard /\ model_calls >= 1

(***************************************************************************)
(* C6: at every model call after the first, every tool call listed in an   *)
(* assistant message of the Conversation has exactly one tool-role message *)
(* of its own: none is missing and none is duplicated.                     *)
(***************************************************************************)
C6_EveryToolCallAnswered ==
    AtLaterModelCall => Answered(messages, 3)

\* A second model call is about to be made after a response with two calls.
C6_Witness ==
    /\ AtLaterModelCall
    /\ Len(messages) = 5
    /\ Len(messages[3].tool_calls) = 2

\* Position of the last assistant message of a Conversation that has one.
LastAssistant(msgs) ==
    CHOOSE p \in 1..Len(msgs) :
        /\ msgs[p].role = "assistant"
        /\ \A q \in (p + 1)..Len(msgs) : msgs[q].role # "assistant"

NumTool(msgs) ==
    Cardinality({ i \in 1..Len(msgs) : msgs[i].role = "tool" })

(***************************************************************************)
(* C7: the tool calls of a response are dispatched one at a time in the    *)
(* order of the response, each tool-role message being appended with its   *)
(* dispatch: after k passes of the for loop the k messages that follow the *)
(* assistant message, and the last k dispatches, are those of the first k  *)
(* tool calls of its list, in that order.                                  *)
(***************************************************************************)
C7_DispatchInResponseOrder ==
    /\ pc # "idle" => NumTool(messages) = Len(dispatched)
    /\ (pc \in {"tools", "loop"} /\ NumAssistant(messages) > 0) =>
          LET p == LastAssistant(messages)
              calls == messages[p].tool_calls
              k == Len(messages) - p
          IN  /\ k <= Len(calls)
              /\ pc = "tools" => k = tool_idx - 1
              /\ pc = "loop" => k = Len(calls)
              /\ \A j \in 1..k :
                    /\ messages[p + j].role = "tool"
                    /\ messages[p + j].tool_call_id = calls[j].id
                    /\ messages[p + j].name = calls[j].function.name
                    /\ dispatched[Len(dispatched) - k + j].name = calls[j].function.name

\* The scenario assistant[joke, dog], tool(joke), tool(dog).
C7_Witness ==
    /\ ~stream
    /\ pc = "loop"
    /\ Len(messages) = 5
    /\ messages[3].role = "assistant"
    /\ messages[3].tool_calls[1].function.name = "random_joke"
    /\ messages[3].tool_calls[2].function.name = "random_dog"
    /\ messages[4].name = "random_joke"
    /\ messages[5].name = "random_dog"

\* What the iterations with tool calls add to a Conversation when each adds
\* the assistant message and one message per tool call.
RECURSIVE Growth(_)
Growth(msgs) ==
    IF msgs = << >>
       THEN 0
       ELSE (IF Head(msgs).role = "assistant"
                THEN 1 + Len(Head(msgs).tool_calls)
                ELSE 0)
            + Growth(Tail(msgs))

(***************************************************************************)
(* C8: non-streaming, every iteration whose response carries N >= 1 tool   *)
(* calls grows the Conversation by exactly 1 + N messages.  Stated as      *)
(* written, at the end of every iteration; the code leaves the iteration   *)
(* early when an arguments text is malformed.                              *)
(***************************************************************************)
C8_GrowsByOnePlusN ==
    (~stream /\ pc \in {"loop", "done"}) => Len(messages) = 2 + Growth(messages)

(***************************************************************************)
(* C9 as written: when the run has ended in a final answer the last        *)
(* message of the Conversation is the assistant message of that answer.    *)
(***************************************************************************)
C9_FinalAnswerAppended ==
    outcome = "final" =>
        /\ messages[Len(messages)].role = "assistant"
        /\ messages[Len(messages)].tool_calls = << >>

(***************************************************************************)
(* C9, amended: a final-answer iteration appends nothing.  Every step of   *)
(* it (reading the stream, accepting the answer) leaves the Conversation   *)
(* as it was, so that its last message is still the user message or the    *)
(* last tool-role message when the run returns.                            *)
(***************************************************************************)
C9_FinalAnswerAppendsNothing ==
    [][ (outcome' = "final" \/ pc' = "stream") =>
            /\ messages' = messages
            /\ messages'[Len(messages')].role \in {"user", "tool"} ]_vars

\* A final answer in the second iteration, after a tool result.
C9_Witness ==
    /\ outcome = "final"
    /\ model_calls = 2
    /\ messages[Len(messages)].role = "tool"

\* The content deltas of a chunk log, joined in arrival order.
RECURSIVE ContentDeltas(_)
ContentDeltas(log) ==
    IF log = << >>
       THEN ""
       ELSE (IF Head(log).choices /\ Head(log).content # None
                THEN Head(log).content
                ELSE "")
            \o ContentDeltas(Tail(log))

\* The argument deltas for one index in a list of tool-call deltas.
RECURSIVE ArgumentDeltas(_, _)
ArgumentDeltas(tc_deltas, index) ==
    IF tc_deltas = << >>
       THEN ""
       ELSE (IF Head(tc_deltas).index = index
                   /\ Head(tc_deltas).function.arguments # None
                THEN Head(tc_deltas).function.arguments
                ELSE "")
            \o ArgumentDeltas(Tail(tc_deltas), index)

\* The argument deltas for one index in a chunk log, joined in arrival order.
RECURSIVE StreamArguments(_, _)
StreamArguments(log, index) ==
    IF log = << >>
       THEN ""
       ELSE (IF Head(log).choices
                THEN ArgumentDeltas(Head(log).tool_calls, index)
                ELSE "")
            \o StreamArguments(Tail(log), index)

(***************************************************************************)
(* C10: whatever the fragments, the content buffer is the concatenation    *)
(* of the content deltas received, and the arguments text of every slot    *)
(* the concatenation of the argument deltas of its index, in arrival       *)
(* order; every index that received a delta has its slot.                  *)
(***************************************************************************)
C10_AccumulatorConcatenates ==
    (stream /\ model_calls > 0) =>
        /\ accumulated_content = ContentDeltas(deltas)
        /\ \A i \in 1..Len(tool_calls_data) :
              tool_calls_data[i].function.arguments = StreamArguments(deltas, i - 1)
        /\ \A i \in 1..Len(deltas) :
              \A j \in 1..Len(deltas[i].tool_calls) :
                 (deltas[i].choices /\ deltas[i].tool_calls[j].index # NoIndex) =>
                     deltas[i].tool_calls[j].index < Len(tool_calls_data)

\* An id in one fragment, the arguments split over the two next ones.
C10_Witness ==
    /\ pc = "stream"
    /\ Len(deltas) = 3
    /\ deltas[1].tool_calls = << Delta(0, "c1", "random_joke", None) >>
    /\ deltas[2].tool_calls = << Delta(0, None, None, "{") >>
    /\ deltas[3].tool_calls = << Delta(0, None, None, "}") >>
    /\ tool_calls_data = << ToolCall("c1", "random_joke", "{}") >>

\* The field ("id", "name" or "arguments") of a tool-call delta.
DeltaField(tc_delta, field) ==
    IF field = "id" THEN tc_delta.id ELSE tc_delta.function[field]

\* The deltas of one field for one index in a list of tool-call deltas, as
\* the sequence of the texts that are present.
RECURSIVE FieldDeltas(_, _, _)
FieldDeltas(tc_deltas, index, field) ==
    IF tc_deltas = << >>
       THEN << >>
       ELSE (IF Head(tc_deltas).index = index
                   /\ DeltaField(Head(tc_deltas), field) # None
                THEN << DeltaField(Head(tc_deltas), field) >>
                ELSE << >>)
            \o FieldDeltas(Tail(tc_deltas), index, field)

\* The same over a chunk log, in arrival order.
RECURSIVE StreamFieldDeltas(_, _, _)
StreamFieldDeltas(log, index, field) ==
    IF log = << >>
       THEN << >>
       ELSE (IF Head(log).choices
                THEN FieldDeltas(Head(log).tool_calls, index, field)
                ELSE << >>)
            \o StreamFieldDeltas(Tail(log), index, field)

\* A sequence of texts joined in order.
RECURSIVE Join(_)
Join(texts) ==
    IF texts = << >> THEN "" ELSE Head(texts) \o Join(Tail(texts))

\* The stream indices a chunk log carries deltas for.
SeenIndices(log) ==
    UNION { { log[i].tool_calls[j].index : j \in 1..Len(log[i].tool_calls) } :
            i \in { c \in 1..Len(log) : log[c].choices } } \ { NoIndex }

\* Number of calls of the logical response a chunk log is a split of.
NumCalls(log) ==
    IF SeenIndices(log) = {}
       THEN 0
       ELSE 1 + (CHOOSE m \in SeenIndices(log) : \A i \in SeenIndices(log) : i <= m)

\* The log splits a complete result whose calls all have an id: every index
\* up to the largest has its id, which arrives whole in one fragment.
IsFragmentation(log) ==
    \A index \in 0..(NumCalls(log) - 1) :
        /\ Len(StreamFieldDeltas(log, index, "id")) = 1
        /\ StreamFieldDeltas(log, index, "id")[1] # ""

\* The tool-call list of the complete result the log is a split of.
OriginalToolCalls(log) ==
    [ i \in 1..NumCalls(log) |->
        ToolCall(Join(StreamFieldDeltas(log, i - 1, "id")),
                 Join(StreamFieldDeltas(log, i - 1, "name")),
                 Join(StreamFieldDeltas(log, i - 1, "arguments"))) ]

(***************************************************************************)
(* C11: round trip.  When the chunks received are a split of a complete    *)
(* result (content, tool calls), whatever the granularity, the accumulator *)
(* holds that content and that tool-call list: same ids, names, arguments, *)
(* number and order of calls.  Stated as written; the code keeps only the  *)
(* last name delta of a name that arrives in pieces.                       *)
(***************************************************************************)
C11_RoundTrip ==
    (stream /\ model_calls > 0 /\ IsFragmentation(deltas)) =>
        /\ accumulated_content = ContentDeltas(deltas)
        /\ tool_calls_data = OriginalToolCalls(deltas)

\* The tool call the next pass of the for loop handles, in either mode.
PendingToolCall ==
    CurrentToolCall(IF stream THEN tool_calls_data ELSE message.tool_calls, tool_idx)

\* Number of tool calls of the response being handled.
NumPending == Len(IF stream THEN tool_calls_data ELSE message.tool_calls)

\* A step that dispatches the pending tool call.
Dispatches(fault) ==
    /\ ExecuteTool(fault) \/ StreamExecuteTool(fault)
    /\ dispatched' # dispatched

\* After a dispatch the loop goes on: to the next tool call of the response,
\* or to the next iteration after the last one; nothing is raised or returned.
LoopContinues ==
    /\ tool_idx' = tool_idx + 1
    /\ pc' = IF tool_idx < NumPending THEN "tools" ELSE "loop"
    /\ outcome' = "none"
    /\ raised' = None
    /\ returned' = None
    /\ iteration' = iteration

PendingArgs == ParseArguments(PendingToolCall.function.arguments)

(***************************************************************************)
(* C13: a fault raised by the callable of a registered tool (a timeout of  *)
(* its network call, or a call its signature rejects) becomes the result   *)
(* {"error": "Tool execution failed: <message>"}: execute_tool does not    *)
(* raise, the tool-role message appended for the call carries that JSON    *)
(* object, and the loop goes on with the next tool call and the next       *)
(* iteration.                                                              *)
(***************************************************************************)
C13_ToolFaultCaptured ==
    [][ \A fault \in BOOLEAN :
          ( /\ Dispatches(fault)
            /\ PendingToolCall.function.name \in tool_map
            /\ CallTool(PendingToolCall.function.name, PendingArgs, fault).raised ) =>
              /\ ~execute_tool(PendingToolCall.function.name, PendingArgs, fault).raised
              /\ messages' = Append(messages,
                    [role |-> "tool", tool_call_id |-> PendingToolCall.id,
                     name |-> PendingToolCall.function.name,
                     content |-> "{\"error\": \"Tool execution failed: "
                        \o CallTool(PendingToolCall.function.name,
                                    PendingArgs, fault).text
                        \o "\"}"])
              /\ LoopContinues ]_vars

\* The network call of a registered tool timed out and the run went on to the
\* next iteration.
C13_Witness ==
    /\ pc = "loop"
    /\ messages[Len(messages)].role = "tool"
    /\ messages[Len(messages)].name \in tool_map
    /\ messages[Len(messages)].content
          = "{\"error\": \"Tool execution failed: timeout\"}"
    /\ raised = None

\* The arguments text of the pending tool call is not JSON.
PendingMalformed ==
    /\ pc = "tools"
    /\ Truthy(PendingToolCall.function.arguments)
    /\ json_loads(PendingToolCall.function.arguments).raised

(***************************************************************************)
(* C14: a tool call whose arguments text is malformed JSON does not abort  *)
(* the run: the pass of the for loop that handles it appends a tool-role   *)
(* message with error content for that call and the loop goes on, in both  *)
(* modes.  Stated as written; the code parses outside the inner try, so    *)
(* the JSONDecodeError leaves run.                                         *)
(***************************************************************************)
C14_MalformedArgumentsCaptured ==
    [][ \A fault \in BOOLEAN :
          ((ExecuteTool(fault) \/ StreamExecuteTool(fault)) /\ PendingMalformed) =>
              /\ Len(messages') = Len(messages) + 1
              /\ messages'[Len(messages')].role = "tool"
              /\ messages'[Len(messages')].tool_call_id = PendingToolCall.id
              /\ LoopContinues ]_vars

\* The pending tool call has an empty or absent arguments text.
PendingNoArguments == pc = "tools" /\ ~Truthy(PendingToolCall.function.arguments)

(***************************************************************************)
(* C15: a tool call whose arguments text is empty or absent is dispatched, *)
(* and the tool is invoked with the arguments json.loads gives for the     *)
(* text {} and answered with the tool-role message that dispatch gives.    *)
(***************************************************************************)
C15_NoArgumentsIsEmptyObject ==
    [][ \A fault \in BOOLEAN :
          ((ExecuteTool(fault) \/ StreamExecuteTool(fault)) /\ PendingNoArguments) =>
              /\ dispatched' = Append(dispatched,
                    Dispatch(PendingToolCall.function.name, json_loads("{}")))
              /\ messages' = Append(messages,
                    ToolMessage(PendingToolCall.id, PendingToolCall.function.name,
                                ToolResult(PendingToolCall.function.name,
                                           json_loads("{}"), fault)))
              /\ LoopContinues ]_vars

\* A call without arguments text has been dispatched with the empty object.
C15_Witness ==
    /\ ~stream
    /\ pc = "tools"
    /\ tool_idx = 2
    /\ message.tool_calls[1].function.arguments = None
    /\ Len(dispatched) > 0
    /\ dispatched[Len(dispatched)] = Dispatch("random_dog", json_loads("{}"))

(***************************************************************************)
(* Cancellation.  The loop has no cancellation flag and no check of one: a *)
(* user interrupt is a KeyboardInterrupt raised wherever the run is, and a *)
(* consumer that abandons the streaming generator raises GeneratorExit at  *)
(* the yield the generator is suspended on.  Both are BaseExceptions, which*)
(* no `except Exception` of the agent or of the tools catches: the run     *)
(* ends where it is.  An interrupt inside a step leaves what an interrupt  *)
(* before the step leaves, since a step appends at its end.                *)
(***************************************************************************)
Cancellations == { "KeyboardInterrupt", "GeneratorExit" }

Cancel(signal) ==
    /\ pc \in { "loop", "stream", "tools" }
    /\ signal = "GeneratorExit" => stream
    /\ pc' = "done"
    /\ outcome' = "cancelled"
    /\ raised' = signal
    /\ UNCHANGED << fun_vars, simple_vars, current_run, suspended, verbose, tool_definitions, tools_sent, stream, arg_max_iterations, max_iterations,
                    model_responses, model_chunks, iteration, messages, message,
                    accumulated_content, tool_calls_data, tool_idx, returned,
                    yielded, model_calls, dispatched, deltas, chunks_sent >>

NextCancel ==
    \/ Next
    \/ \E signal \in Cancellations : Cancel(signal)

SpecCancel == Init /\ [][NextCancel]_vars

(***************************************************************************)
(* C16: a run stopped by a cancellation leaves a Conversation in which     *)
(* every assistant tool-call message is followed by all of its tool-role   *)
(* results.  Stated as written; the code checks for no cancellation, so an *)
(* interrupt between the append of the assistant message and the last tool *)
(* result leaves the tool calls unanswered.                                *)
(***************************************************************************)
C16_CancelLeavesAnswered ==
    outcome = "cancelled" => Answered(messages, 3)

\* The ids of the tool calls listed by the assistant messages before
\* position p of a Conversation.
IssuedBefore(msgs, p) ==
    UNION { { msgs[q].tool_calls[k].id : k \in 1..Len(msgs[q].tool_calls) } :
            q \in { a \in 1..(p - 1) : msgs[a].role = "assistant" } }

(***************************************************************************)
(* C18: in every reachable Conversation each tool-role message carries a   *)
(* tool_call_id that is not null and is the id of a tool call listed by an *)
(* assistant message earlier in the Conversation.  Stated as written; the  *)
(* streaming code keeps and dispatches slots that never received an id.    *)
(***************************************************************************)
C18_ToolMessageReferencesIssuedId ==
    \A p \in 1..Len(messages) :
        messages[p].role = "tool" =>
            /\ messages[p].tool_call_id # None
            /\ messages[p].tool_call_id \in IssuedBefore(messages, p)

\* Sequence a is a prefix of sequence b.
IsPrefix(a, b) == Len(a) <= Len(b) /\ SubSeq(b, 1, Len(a)) = a

(***************************************************************************)
(* C19: the Conversation of a run starts as exactly [system message, user  *)
(* message] and afterwards only grows at its end: across every step of the *)
(* run the Conversation before is a prefix of the Conversation after, so   *)
(* no message is removed, reordered or altered and each model call is sent *)
(* an extension of what the previous one was sent.                         *)
(***************************************************************************)
C19_AppendOnly ==
    [][ /\ pc = "idle" =>
              /\ Len(messages') = 2
              /\ messages'[1] = [role |-> "system", content |-> system_prompt]
              /\ messages'[2].role = "user"
              /\ messages'[2].content \in UserMessages
        /\ pc # "idle" => IsPrefix(messages, messages') ]_vars

\* A second model call has been sent a Conversation that grew by a whole
\* tool-call iteration since the first.
C19_Witness ==
    /\ model_calls = 2
    /\ Len(messages) > 4
    /\ messages[3].role = "assistant"
    /\ messages[4].role = "tool"

(***************************************************************************)
(* C20: a non-streaming run that ends without raising returns one string,  *)
(* never a missing value: the content of the first response without tool   *)
(* calls (every response before it had tool calls), the empty string when  *)
(* that response has no content, or the fallback text at the cap.          *)
(***************************************************************************)
C20_ReturnsOneString ==
    (~stream /\ pc = "done" /\ outcome # "error") =>
        /\ returned # None
        /\ outcome \in { "final", "capped" }
        /\ outcome = "final" =>
              /\ message.tool_calls = << >>
              /\ NumAssistant(messages) = model_calls - 1
              /\ returned = (IF message.content = None THEN "" ELSE message.content)
        /\ outcome = "capped" => returned = FALLBACK

\* A run returned the empty string for a final response without content,
\* after an iteration with tool calls.
C20_Witness ==
    /\ ~stream
    /\ outcome = "final"
    /\ message.content = None
    /\ returned = ""
    /\ model_calls = 2

(***************************************************************************)
(* Two runs on one agent instance (web_app.py: WebInterface holds a single *)
(* LiteLLMAgent and every chat drains self.agent.run(...)).  The variables *)
(* hold the frame of the run that is executing, `suspended` the frame of   *)
(* the other one; the scheduler may switch between them between any two    *)
(* steps.  The agent instance (verbose) is the only thing both runs see.   *)
(***************************************************************************)
TwoRunCap == 1
TwoRunChunks == 1

\* Mutant of ResumedFrame: the Conversation is kept on the agent instance,
\* so that the resumed run finds the messages of the run that just ran.
ResumedFrameSharedMessages(running, saved) ==
    [saved EXCEPT !.messages = running.messages]

\* The locals a run finds when it is resumed: those it was suspended with.
ResumedFrame(running, saved) == saved

\* The scheduler suspends the executing run and resumes the other one.
Switch ==
    LET frame == ResumedFrame(RunLocals, suspended)
    IN  /\ suspended' = RunLocals
        /\ current_run' = 3 - current_run
        /\ stream' = frame.stream
        /\ arg_max_iterations' = frame.arg_max_iterations
        /\ max_iterations' = frame.max_iterations
        /\ model_responses' = frame.model_responses
        /\ model_chunks' = frame.model_chunks
        /\ pc' = frame.pc
        /\ iteration' = frame.iteration
        /\ messages' = frame.messages
        /\ message' = frame.message
        /\ accumulated_content' = frame.accumulated_content
        /\ tool_calls_data' = frame.tool_calls_data
        /\ tool_idx' = frame.tool_idx
        /\ outcome' = frame.outcome
        /\ raised' = frame.raised
        /\ returned' = frame.returned
        /\ yielded' = frame.yielded
        /\ model_calls' = frame.model_calls
        /\ dispatched' = frame.dispatched
        /\ deltas' = frame.deltas
        /\ chunks_sent' = frame.chunks_sent
        /\ UNCHANGED << fun_vars, simple_vars, verbose, tool_definitions, tools_sent >>

\* A chunk of the plain model, while the run has received few chunks.
StreamChunkTwo(chunk) ==
    /\ chunks_sent < TwoRunChunks
    /\ StreamChunk(chunk)

\* The steps of the executing run and the switch; each run has a small cap
\* and, when streaming, is answered by the plain model.
NextTwo ==
    \/ \E user_message \in UserMessages, s \in BOOLEAN :
          Run(user_message, << TwoRunCap >>, s)
    \/ Capped
    \/ \E r \in Responses : CallModel(r)
    \/ CallModelFails
    \/ \E fault \in BOOLEAN : ExecuteTool(fault)
    \/ StreamOpen
    \/ \E chunk \in PlainChunks : StreamChunkTwo(chunk)
    \/ StreamFails
    \/ StreamEnd
    \/ \E fault \in BOOLEAN : StreamExecuteTool(fault)
    \/ Switch

SpecTwo == Init /\ [][NextTwo]_vars

\* The frame of run r, executing or suspended.
RunView(r) == IF current_run = r THEN RunLocals ELSE suspended

(***************************************************************************)
(* C17: two runs interleaved in any way on the same agent instance are     *)
(* independent.  Whenever anything of a run changes (its Conversation, its *)
(* accumulator slots, its iteration counter, its result), the run itself   *)
(* is executing and the change is a step the run takes alone on the same   *)
(* model response or tool outcome; a step of the other run, or a switch,   *)
(* leaves it exactly as it was.                                            *)
(***************************************************************************)
C17_RunsIndependent ==
    [][ \A r \in { 1, 2 } :
          RunView(r)' # RunView(r) =>
              (current_run = r /\ current_run' = r /\ Next) ]_vars

\* Both runs are under way: one is about to dispatch a tool, the other was
\* suspended in the middle of its stream, and their Conversations differ.
C17_Witness ==
    /\ pc = "tools"
    /\ suspended.pc = "stream"
    /\ Len(suspended.deltas) > 0
    /\ Len(suspended.messages) = 2
    /\ Len(messages) > 2

\* A stream of the run has ended and its accumulator is still in place.
AfterStream == stream /\ model_calls > 0 /\ pc # "stream"

(***************************************************************************)
(* C22: when the stream has ended, the name of every slot is the           *)
(* concatenation, in arrival order, of the name deltas received for its    *)
(* index.  Stated as written; the code assigns each name delta.            *)
(***************************************************************************)
C22_NameConcatenated ==
    AfterStream =>
        \A i \in 1..Len(tool_calls_data) :
            tool_calls_data[i].function.name
                = Join(StreamFieldDeltas(deltas, i - 1, "name"))

\* The non-empty texts of a sequence of texts.
RECURSIVE NonEmpty(_)
NonEmpty(texts) ==
    IF texts = << >>
       THEN << >>
       ELSE (IF Head(texts) # "" THEN << Head(texts) >> ELSE << >>)
            \o NonEmpty(Tail(texts))

\* The first non-null id a chunk log carries for an index, None without one.
FirstId(log, index) ==
    IF NonEmpty(StreamFieldDeltas(log, index, "id")) = << >>
       THEN None
       ELSE NonEmpty(StreamFieldDeltas(log, index, "id"))[1]

(***************************************************************************)
(* C23: the id of a slot is assigned once: it is the first non-null id     *)
(* received for its index, whatever ids later fragments carry for the same *)
(* index.  Stated as written; the code assigns every id it receives.       *)
(***************************************************************************)
C23_FirstIdWins ==
    (stream /\ model_calls > 0) =>
        \A i \in 1..Len(tool_calls_data) :
            tool_calls_data[i].id = FirstId(deltas, i - 1)

(***************************************************************************)
(* C24: a slot whose id is still null at stream end is discarded: no       *)
(* assistant message of a streaming run lists a tool call without id, and  *)
(* no tool-role message answers one.  Stated as written; the code keeps    *)
(* every slot as soon as one slot of the stream has an id.                 *)
(***************************************************************************)
C24_NullIdSlotDiscarded ==
    stream =>
        \A p \in 1..Len(messages) :
            /\ messages[p].role = "assistant" =>
                  \A k \in 1..Len(messages[p].tool_calls) :
                      Truthy(messages[p].tool_calls[k].id)
            /\ messages[p].role = "tool" => Truthy(messages[p].tool_call_id)

\* The slots are those of the indices 0..M of a chunk log, and a slot whose
\* index received no delta is as it was created.
Contiguous(data, log) ==
    /\ Len(data) = NumCalls(log)
    /\ \A i \in 1..Len(data) : (i - 1) \notin SeenIndices(log) => data[i] = EmptySlot

(***************************************************************************)
(* C25: after every processed tool-call delta the slots of the accumulator *)
(* are exactly those of the contiguous indices 0..M, M the largest index   *)
(* seen so far in the stream, and a slot created only to fill a gap holds  *)
(* the default {id: null, name: "", arguments: ""}.  Checked after every   *)
(* chunk and after every delta inside a chunk.                             *)
(***************************************************************************)
C25_SlotsContiguous ==
    /\ [] ((stream /\ model_calls > 0) => Contiguous(tool_calls_data, deltas))
    /\ [][ \A chunk \in Chunks :
             (StreamChunk(chunk) /\ chunk.choices) =>
                 \A k \in 1..Len(chunk.tool_calls) :
                     Contiguous(
                         ApplyDeltas(tool_calls_data, SubSeq(chunk.tool_calls, 1, k)),
                         Append(deltas,
                                [chunk EXCEPT !.tool_calls = SubSeq(@, 1, k)])) ]_vars

\* A delta for index 1 arrived first: slot 0 fills the gap with the default.
C25_Witness ==
    /\ pc = "stream"
    /\ Len(tool_calls_data) = 2
    /\ tool_calls_data[1] = EmptySlot
    /\ tool_calls_data[2].id = "c2"

\* The stream indices one chunk carries deltas for.
ChunkIndices(chunk) ==
    IF chunk.choices
       THEN { chunk.tool_calls[j].index : j \in 1..Len(chunk.tool_calls) }
       ELSE {}

\* The elements of a sequence of texts.
Elements(texts) == { texts[k] : k \in 1..Len(texts) }

\* Slot i of the accumulator is made of the deltas of stream index i - 1 and
\* of nothing else.
SlotOfIndex(data, log, i) ==
    /\ data[i].function.arguments = Join(StreamFieldDeltas(log, i - 1, "arguments"))
    /\ data[i].id \in Elements(StreamFieldDeltas(log, i - 1, "id")) \cup { None }
    /\ data[i].function.name
          \in Elements(StreamFieldDeltas(log, i - 1, "name")) \cup { "" }

\* The tool-role messages that follow the last assistant message.
AnswersOfLast(msgs) == SubSeq(msgs, LastAssistant(msgs) + 1, Len(msgs))

(***************************************************************************)
(* C26: the finalized tool calls are ordered by stream index whatever the  *)
(* arrival order of the fragments.  The slot at position i holds the call  *)
(* of index i - 1; a chunk changes only the slots of the indices it        *)
(* carries; the assistant message lists the slots in index order and the   *)
(* for loop dispatches them in that order, the call of index 0 before the  *)
(* call of index 1 also when index 1 arrived first.                        *)
(***************************************************************************)
C26_OrderedByIndex ==
    /\ [] ((stream /\ model_calls > 0) =>
              \A i \in 1..Len(tool_calls_data) :
                  SlotOfIndex(tool_calls_data, deltas, i))
    /\ [] ((stream /\ pc = "tools") =>
              /\ messages[LastAssistant(messages)].tool_calls = tool_calls_data
              /\ Len(AnswersOfLast(messages)) = tool_idx - 1
              /\ \A k \in 1..(tool_idx - 1) :
                    /\ AnswersOfLast(messages)[k].tool_call_id = tool_calls_data[k].id
                    /\ AnswersOfLast(messages)[k].name
                          = tool_calls_data[k].function.name
                    /\ dispatched[Len(dispatched) - (tool_idx - 1) + k].name
                          = tool_calls_data[k].function.name)
    /\ [][ \A chunk \in Chunks :
             StreamChunk(chunk) =>
                 \A i \in 1..Len(tool_calls_data) :
                     (i - 1) \notin ChunkIndices(chunk) =>
                         tool_calls_data'[i] = tool_calls_data[i] ]_vars

\* The delta of index 1 arrived before the delta of index 0, and the call of
\* index 0 has been dispatched first.
C26_Witness ==
    /\ stream
    /\ pc = "tools"
    /\ tool_idx = 2
    /\ Len(deltas) = 2
    /\ Len(deltas[1].tool_calls) = 2
    /\ Len(deltas[2].tool_calls) = 1
    /\ deltas[1].tool_calls[2].index = 1
    /\ deltas[2].tool_calls[1].index = 0
    /\ tool_calls_data[1].id = "c1"
    /\ tool_calls_data[2].id = "c2"
    /\ dispatched[Len(dispatched)].name = tool_calls_data[1].function.name

\* The content chunks among the chunks yielded, in order.
RECURSIVE ContentChunks(_)
ContentChunks(ys) ==
    IF ys = << >>
       THEN << >>
       ELSE (IF Head(ys).kind = "content" THEN << Head(ys) >> ELSE << >>)
            \o ContentChunks(Tail(ys))

\* What the consumer is handed for one chunk of the stream: its content
\* delta when there is a non-empty one.
HandedFor(chunk) ==
    IF chunk.choices /\ chunk.content # None /\ chunk.content # ""
       THEN << [kind |-> "content", text |-> chunk.content] >>
       ELSE << >>

(***************************************************************************)
(* C29: in streaming mode every non-empty content delta is yielded as it   *)
(* arrives, once, in the step that reads its chunk, and nothing else ever  *)
(* yields content.  With verbose off, when the first response has been     *)
(* received and carries no tool-call deltas, the chunks yielded are        *)
(* content chunks whose concatenation is the accumulated content of that   *)
(* response.                                                               *)
(***************************************************************************)
C29_ContentYieldedOnce ==
    /\ [][ /\ \A chunk \in Chunks :
                StreamChunk(chunk) => yielded' = yielded \o HandedFor(chunk)
           /\ (\A chunk \in Chunks : ~StreamChunk(chunk)) =>
                ContentChunks(yielded') = ContentChunks(yielded) ]_vars
    /\ [] ((stream /\ ~verbose /\ model_calls = 1 /\ pc # "stream"
              /\ raised = None /\ ~HasToolDeltas(deltas)) =>
                /\ ContentChunks(yielded) = yielded
                /\ YieldedText(yielded) = accumulated_content
                /\ accumulated_content = ContentDeltas(deltas))

\* A final answer streamed in two content deltas, verbose off.
C29_Witness ==
    /\ stream
    /\ ~verbose
    /\ outcome = "final"
    /\ model_calls = 1
    /\ yielded = << [kind |-> "content", text |-> "h"],
                    [kind |-> "content", text |-> "i"] >>
    /\ accumulated_content = "hi"

(***************************************************************************)
(* Runs under the default cap: run(user_message) and                       *)
(* run(user_message, stream=True), without max_iterations.  The plain      *)
(* model answers, and streams each response in at most one chunk, so that  *)
(* all MAX_ITERATIONS iterations are explored in both modes.               *)
(***************************************************************************)
\* The stream has not delivered its chunk yet.
WholeResponsePending == deltas = << >>

StreamChunkDefault(chunk) ==
    /\ WholeResponsePending
    /\ ReadChunk(chunk)

NextDefault ==
    \/ \E user_message \in UserMessages, s \in BOOLEAN :
          Run(user_message, << >>, s)
    \/ Capped
    \/ \E r \in PlainResponses : CallModel(r)
    \/ CallModelFails
    \/ \E fault \in BOOLEAN : ExecuteTool(fault)
    \/ StreamOpen
    \/ \E chunk \in PlainChunks : StreamChunkDefault(chunk)
    \/ StreamFails
    \/ StreamEnd
    \/ \E fault \in BOOLEAN : StreamExecuteTool(fault)

SpecDefault == Init /\ [][NextDefault]_vars

(***************************************************************************)
(* C30: a run called without max_iterations has the cap 10.  It makes at   *)
(* most 10 model calls, exactly one per iteration, and when all 10         *)
(* responses requested tools the loop is left for the capped outcome once  *)
(* the tool results of the 10th iteration are appended: a capped run has   *)
(* made its 10 model calls and every tool call of its Conversation is      *)
(* answered.                                                               *)
(***************************************************************************)
C30_DefaultCapIsTen ==
    pc # "idle" =>
        /\ max_iterations = 10
        /\ model_calls <= 10
        /\ model_calls = iteration
        /\ NumAssistant(messages) <= model_calls
        /\ (pc = "loop" /\ NumAssistant(messages) = 10) =>
              /\ Answered(messages, 3)
              /\ ENABLED Capped
              /\ ~ENABLED CallModelFails
        /\ outcome = "capped" =>
              /\ model_calls = 10
              /\ Answered(messages, 3)
        /\ (outcome = "capped" /\ ~stream) => NumAssistant(messages) = 10

\* Ten responses requested a tool, in streaming mode, and the run is capped
\* with the ten tool results in the Conversation.
C30_Witness ==
    /\ stream
    /\ outcome = "capped"
    /\ NumAssistant(messages) = 10
    /\ NumTool(messages) = 10
    /\ Len(messages) = 22

\* The names of a list of tool definitions, in its order.
DefinitionNames(definitions) ==
    [ i \in 1..Len(definitions) |-> definitions[i].function.name ]

AdvertisedNames ==
    { get_tool_definitions_openai_format[i].function.name :
        i \in 1..Len(get_tool_definitions_openai_format) }

\* Arguments a tool can be dispatched with.
SomeArguments == { json_loads("{}"), json_loads("{\"a\": 1}"), json_loads("[1]") }

(***************************************************************************)
(* C28: the names advertised to the model are the names the dispatcher     *)
(* accepts.  The two sets are equal; execute_tool never raises "unknown    *)
(* tool" for an advertised name, whatever the arguments and the outcome of *)
(* the callable, and raises it for every other name; and in a run, the     *)
(* tool-role message of a dispatched call is the unknown-tool error        *)
(* exactly when its name is not among those sent to the model.             *)
(***************************************************************************)
C28_AdvertisedIsDispatchable ==
    /\ [] /\ AdvertisedNames = tool_map
          /\ \A name \in AdvertisedNames \cup { "nope", "" } :
                \A args \in SomeArguments, fault \in BOOLEAN :
                    execute_tool(name, args, fault).raised <=> name \notin AdvertisedNames
          /\ \A tools \in tools_sent :
                { tools[i].function.name : i \in 1..Len(tools) } = tool_map
    /\ [][ \A fault \in BOOLEAN :
             Dispatches(fault) =>
                 ( messages'[Len(messages')].content
                       = "{\"error\": \"Unknown tool: "
                            \o PendingToolCall.function.name \o "\"}"
                   <=> \A tools \in tools_sent :
                          PendingToolCall.function.name
                             \notin { tools[i].function.name : i \in 1..Len(tools) } )
         ]_vars

\* A call of an advertised tool has been dispatched to its callable, which
\* returned its payload.
C28_Witness ==
    /\ tools_sent # {}
    /\ dispatched # << >>
    /\ dispatched[Len(dispatched)].name \in AdvertisedNames
    /\ messages[Len(messages)].role = "tool"
    /\ messages[Len(messages)].content
          = json_dumps(Payload(dispatched[Len(dispatched)].name))

\* The complete response a chunk log is a split of: its content, and for
\* every index its id, its name and its arguments text.
LogicalResponse(log) ==
    Message(ContentDeltas(log),
            [ i \in 1..NumCalls(log) |->
                ToolCall(FirstId(log, i - 1),
                         Join(StreamFieldDeltas(log, i - 1, "name")),
                         Join(StreamFieldDeltas(log, i - 1, "arguments"))) ])

\* What the non-streaming loop does with a complete response r: the
\* Conversation after it, and whether the run is over.
WholeAppends(r) ==
    MessagesAfterResponse(messages, r.content, r.tool_calls, r.tool_calls # << >>)

WholeIsFinal(r) == r.tool_calls = << >>

\* What one pass of the non-streaming for loop does with a tool call: it
\* raises on a malformed arguments text, and otherwise appends the tool-role
\* message of the dispatch.
WholePass(tool_call, fault) ==
    LET tool_args == ParseArguments(tool_call.function.arguments)
    IN  IF tool_args.raised
           THEN /\ raised' = "JSONDecodeError"
                /\ messages' = messages
           ELSE /\ raised' = None
                /\ messages' = Append(messages,
                      ToolMessage(tool_call.id, tool_call.function.name,
                                  ToolResult(tool_call.function.name, tool_args, fault)))
                /\ dispatched' = Append(dispatched,
                      Dispatch(tool_call.function.name, tool_args))

(***************************************************************************)
(* C27: a streaming run does what the non-streaming run does on the same   *)
(* logical responses and tool outcomes.  When a stream ends, the           *)
(* Conversation and the outcome are those the non-streaming loop gives for *)
(* the complete response the chunks are a split of (final answer when it   *)
(* has no tool calls, tool dispatch otherwise), and every pass over a tool *)
(* call does what the non-streaming pass does with that call.  Stated as   *)
(* written; the streaming loop differs on an empty content, on arguments   *)
(* that are JSON but no object, and on slots without id.                   *)
(***************************************************************************)
C27_ModesEquivalent ==
    [][ /\ StreamEnd =>
              /\ messages' = WholeAppends(LogicalResponse(deltas))
              /\ WholeIsFinal(LogicalResponse(deltas)) =>
                    (pc' = "done" /\ outcome' = "final")
              /\ ~WholeIsFinal(LogicalResponse(deltas)) => pc' = "tools"
        /\ \A fault \in BOOLEAN :
              StreamExecuteTool(fault) =>
                  WholePass(CurrentToolCall(tool_calls_data, tool_idx), fault) ]_vars


\* ------------------------------------------------------------------------
\* agent_fun.py: the JSON-decision agent.
\* ------------------------------------------------------------------------

\* range(10) of the step loop.
MaxSteps == 10

\* Bound of the environment: the events of a session beyond its plain course,
\* which are a user message after the first and a step that is anything but a
\* tool call that returns or an accepted final.
MaxOdd == 2

\* A session is followed for one full step loop and one step more.
MaxSessionSteps == MaxSteps + 1

\* The names session.list_tools() reports: the tools of server_fun.py.
tool_index == {"get_weather", "book_recs", "random_joke", "random_dog", "trivia"}

\* What input() may return.
FunInputs == {"hi", "  ", "", "exit", "Quit"}

\* str.strip and str.lower on those inputs.
Strip(text) == IF text = "  " THEN "" ELSE text

Lower(text) == IF text = "Quit" THEN "quit" ELSE text

\* The loop's exit test on the stripped input.
IsExit(text) == text = "" \/ Lower(text) \in {"exit", "quit"}

\* What the model may answer (resp["message"]["content"]).
FunTexts ==
    { "{\"action\":\"random_joke\",\"args\":{}}",
      "{\"action\":\"final\",\"answer\":\"done\"}",
      "{\"action\":\"final\",\"answer\":\"call {\\\"action\\\":\\\"trivia\\\"}\"}",
      "{\"action\":\"nope\",\"args\":{}}",
      "{\"args\":{}}",
      "not json",
      "[1]" }

\* A decision object; an absent key is None.
Decision(act, answer) == [kind |-> "dict", action |-> act, answer |-> answer]

\* llm_json on a model text: json.loads of it, and the fallback final when it
\* is no JSON.  "[1]" is JSON but no object.
llm_json(txt) ==
    CASE txt = "{\"action\":\"random_joke\",\"args\":{}}" -> Decision("random_joke", None)
      [] txt = "{\"action\":\"final\",\"answer\":\"done\"}" -> Decision("final", "done")
      [] txt = "{\"action\":\"final\",\"answer\":\"call {\\\"action\\\":\\\"trivia\\\"}\"}"
            -> Decision("final", "call {\"action\":\"trivia\"}")
      [] txt = "{\"action\":\"nope\",\"args\":{}}" -> Decision("nope", None)
      [] txt = "{\"args\":{}}" -> Decision(None, None)
      [] txt = "[1]" -> [kind |-> "list", action |-> None, answer |-> None]
      [] OTHER -> Decision("final", "Error: Could not parse model response")

\* decision.get("answer", "").
AnswerOf(decision) == IF decision.answer = None THEN "" ELSE decision.answer

\* '{"action"' in answer.
HasActionMarker(answer) == answer = "call {\"action\":\"trivia\"}"

PrematureMarkerOnly(answer, s) == HasActionMarker(answer)

\* The test that rejects a final: the marker, or the first step.
Premature(answer, s) == HasActionMarker(answer) \/ s = 0

KnownToolAlways(tname) == TRUE

\* tname in tool_index.
KnownTool(tname) == tname \in tool_index

\* str() of a tool name inside an f-string.
Str(tname) == IF tname = None THEN "None" ELSE tname

\* What session.call_tool may do.
FunOutcomes == {"returns", "raises"}

Assistant(content) == [role |-> "assistant", content |-> content]

HistoryAppendFresh(h, entry) == << h[1], entry >>

\* history.append(entry).
HistoryAppend(h, entry) == Append(h, entry)

\* The assistant entry a tool call leaves.
ToolEntry(tname, call) ==
    IF call = "raises"
    THEN Assistant("[tool:" \o tname \o " failed: boom]")
    ELSE Assistant("[tool:" \o tname \o "] {\"ok\":true}")

LoopEndsLate(s) == s = MaxSteps

\* The for loop has no step after step s.
LoopEnds(s) == s + 1 = MaxSteps

\* Where main is after a step that did not break.
AfterContinue(s) == IF LoopEnds(s) THEN "input" ELSE "step"

\* One more event beyond the plain course may happen.
OddAllowed == odd < MaxOdd

\* The assistant entries of history: one per step run so far.
SessionSteps == Len(history) - 1 - turns

\* input() and the code up to the step loop.
FunInput(text) ==
    /\ fun_pc = "input"
    /\ SessionSteps < MaxSessionSteps
    /\ IF IsExit(Strip(text))
       THEN /\ fun_pc' = "exited"
            /\ UNCHANGED << history, step, decisions, call_tool_log, printed, turns,
                            odd >>
       ELSE /\ turns > 0 => OddAllowed
            /\ fun_pc' = "step"
            /\ history' = HistoryAppend(history, [role |-> "user", content |-> Strip(text)])
            /\ step' = 0
            /\ decisions' = 0
            /\ call_tool_log' = << >>
            /\ printed' = None
            /\ turns' = turns + 1
            /\ odd' = IF turns > 0 THEN odd + 1 ELSE odd
    /\ UNCHANGED << action, agent_vars, simple_vars >>

\* One pass of the step loop: the decision, and the branch it selects.
FunStep(txt, call) ==
    /\ fun_pc = "step"
    /\ SessionSteps < MaxSessionSteps
    /\ decisions' = decisions + 1
    /\ LET decision == llm_json(txt)
           answer == AnswerOf(decision)
       IN  IF decision.kind # "dict"
           THEN \* decision.get raises
                /\ fun_pc' = "crashed"
                /\ UNCHANGED << history, step, action, call_tool_log, printed, odd >>
           ELSE /\ action' = decision.action
                /\ IF action' = "final" /\ ~Premature(answer, step)
                   THEN /\ printed' = answer
                        /\ history' = HistoryAppend(history, Assistant(answer))
                        /\ fun_pc' = "input"
                        /\ UNCHANGED << step, call_tool_log, odd >>
                   ELSE IF action' = "final"
                   THEN /\ OddAllowed
                        /\ history' = HistoryAppend(history,
                               Assistant("I need to call tools first, not just describe them."))
                        /\ fun_pc' = AfterContinue(step)
                        /\ step' = step + 1
                        /\ odd' = odd + 1
                        /\ UNCHANGED << call_tool_log, printed >>
                   ELSE IF ~KnownTool(action')
                   THEN /\ OddAllowed
                        /\ history' = HistoryAppend(history,
                               Assistant("(unknown tool " \o Str(action') \o ")"))
                        /\ fun_pc' = AfterContinue(step)
                        /\ step' = step + 1
                        /\ odd' = odd + 1
                        /\ UNCHANGED << call_tool_log, printed >>
                   ELSE /\ call = "raises" => OddAllowed
                        /\ call_tool_log' = Append(call_tool_log, action')
                        /\ history' = HistoryAppend(history, ToolEntry(action', call))
                        /\ fun_pc' = AfterContinue(step)
                        /\ step' = step + 1
                        /\ odd' = IF call = "raises" THEN odd + 1 ELSE odd
                        /\ UNCHANGED printed
    /\ UNCHANGED << turns, agent_vars, simple_vars >>

\* chat() raises inside llm_json: nothing catches it.
FunChatFails ==
    /\ fun_pc = "step"
    /\ SessionSteps < MaxSessionSteps
    /\ fun_pc' = "crashed"
    /\ decisions' = decisions + 1
    /\ UNCHANGED << history, step, action, call_tool_log, printed, turns, odd,
                    agent_vars, simple_vars >>

NextFun ==
    \/ \E text \in FunInputs : FunInput(text)
    \/ \E txt \in FunTexts, call \in FunOutcomes : FunStep(txt, call)
    \/ FunChatFails

SpecFun == Init /\ [][NextFun]_vars


\* The last entry of history.
LastEntry(h) == h[Len(h)]

\* The step loop of the current user message is over and main is back at
\* input().
TurnOver == fun_pc = "input" /\ turns > 0

\* C31: each user message triggers at most 10 model decisions; the step loop
\* ends when a final answer is accepted or after the 10th step, and in the
\* latter case nothing is printed for the user and nothing but the step's own
\* entry is added to the history.
C31_AtMostTenDecisions ==
    /\ [](decisions <= MaxSteps)
    /\ [][(fun_pc = "step" /\ fun_pc' = "input") =>
              \/ printed' # None
              \/ /\ decisions' = MaxSteps
                 /\ printed' = None
                 /\ Len(history') = Len(history) + 1]_vars

\* A turn that ran all 10 steps and ended without an answer.
C31_Witness ==
    /\ TurnOver
    /\ decisions = MaxSteps
    /\ printed = None
    /\ Len(call_tool_log) = MaxSteps

\* C32: a final is accepted exactly when it comes at the second step or later
\* and its answer does not contain {"action"; a final at the first step is
\* rejected, the fallback final of llm_json included; no answer is printed
\* after fewer than two decisions.
C32_FinalNeedsTwoDecisions ==
    /\ [](printed # None => decisions >= 2 /\ ~HasActionMarker(printed))
    /\ [][\A txt \in FunTexts :
              (FunStep(txt, "returns") /\ llm_json(txt).kind = "dict"
                                       /\ llm_json(txt).action = "final") =>
                  /\ printed' # None <=>
                         (step >= 1 /\ ~HasActionMarker(AnswerOf(llm_json(txt))))
                  /\ step = 0 => (printed' = None /\ fun_pc' = "step")]_vars

\* A final at the first step was rejected, and the final at the second step
\* was accepted: the fallback answer of llm_json, after two decisions.
C32_Witness ==
    /\ TurnOver
    /\ decisions = 2
    /\ printed = "Error: Could not parse model response"
    /\ Len(history) = 4
    /\ history[3].content = "I need to call tools first, not just describe them."

\* Where the loop is after a step that went on: at the next step, or after
\* the 10th step back at input().
LoopGoesOn ==
    /\ printed' = None
    /\ step' = step + 1
    /\ fun_pc' = IF step + 1 < MaxSteps THEN "step" ELSE "input"

\* A step got a decision object.
Decided == decisions' = decisions + 1 /\ fun_pc' # "crashed"

\* C33: a decision whose action is no tool of the server (a decision without
\* action included) sends nothing to the server, appends a note about the
\* unknown tool, and the loop goes on; a tool call, failing or not, is recorded
\* in the history and the loop goes on.
C33_UnknownToolNotSent ==
    /\ [](\A i \in 1..Len(call_tool_log) : call_tool_log[i] \in tool_index)
    /\ [][(Decided /\ action' # "final") =>
              IF action' \notin tool_index
              THEN /\ call_tool_log' = call_tool_log
                   /\ history' = Append(history,
                          Assistant("(unknown tool " \o Str(action') \o ")"))
                   /\ LoopGoesOn
              ELSE /\ call_tool_log' = Append(call_tool_log, action')
                   /\ \/ history' = Append(history,
                             Assistant("[tool:" \o action' \o " failed: boom]"))
                      \/ history' = Append(history,
                             Assistant("[tool:" \o action' \o "] {\"ok\":true}"))
                   /\ LoopGoesOn]_vars

\* A decision without action left its note, no tool was called, and the loop
\* is at its next step.
C33_Witness ==
    /\ fun_pc = "step"
    /\ decisions = 2
    /\ step = 2
    /\ call_tool_log = << "random_joke" >>
    /\ LastEntry(history).content = "(unknown tool None)"

\* C34: the history only grows, also from one user message to the next; a user
\* message appends exactly one user entry, and a step that completes appends
\* exactly one assistant entry whatever its branch.
C34_HistoryOnlyGrows ==
    [][/\ IsPrefix(history, history')
       /\ turns' # turns =>
              /\ Len(history') = Len(history) + 1
              /\ LastEntry(history').role = "user"
       /\ Decided =>
              /\ Len(history') = Len(history) + 1
              /\ LastEntry(history').role = "assistant"
       /\ (turns' = turns /\ ~Decided) => history' = history]_vars

\* The second user message and its first step were appended behind the whole
\* first turn.
C34_Witness ==
    /\ turns = 2
    /\ fun_pc = "step"
    /\ decisions = 1
    /\ Len(history) = 6
    /\ history[2].role = "user"
    /\ history[4].content = "done"
    /\ history[5].role = "user"
    /\ history[6].role = "assistant"


\* ------------------------------------------------------------------------
\* agent_simple.py: the rule-based agent.
\* ------------------------------------------------------------------------

\* Bound of the environment: requests per session.
MaxRequests == 2

\* What input() may return.
SimpleInputs ==
    { "Weather at (40.7, -74.0), 3 mystery books, a joke, a dog and trivia",
      "weather please",
      "a book and a JOKE",
      "dog question",
      "hello",
      "",
      "exit" }

\* The words of the rules that user.lower() contains.
Words(text) ==
    CASE text = "Weather at (40.7, -74.0), 3 mystery books, a joke, a dog and trivia"
            -> {"weather", "book", "mystery", "joke", "dog", "trivia"}
      [] text = "weather please" -> {"weather"}
      [] text = "a book and a JOKE" -> {"book", "joke"}
      [] text = "dog question" -> {"dog", "question"}
      [] OTHER -> {}

\* coord_match: the two groups of the first coordinate pair, empty when the
\* pattern matches nowhere.
coord_match(text) ==
    IF text = "Weather at (40.7, -74.0), 3 mystery books, a joke, a dog and trivia"
    THEN << "40.7", "-74.0" >>
    ELSE << >>

\* book_match: the digits next to the word book, or None.
book_match(text) ==
    IF text = "Weather at (40.7, -74.0), 3 mystery books, a joke, a dog and trivia"
    THEN "3"
    ELSE None

\* int() of those digits.
int(digits) == IF digits = "3" THEN 3 ELSE 0

\* One (tname, args) pair of tool_calls.
Planned(tname, args) == [tname |-> tname, args |-> args]

WeatherCalls(text) ==
    IF "weather" \in Words(text) /\ coord_match(text) # << >>
    THEN << Planned("get_weather", [latitude |-> coord_match(text)[1],
                                    longitude |-> coord_match(text)[2]]) >>
    ELSE << >>

BookCalls(text) ==
    IF "book" \in Words(text)
    THEN << Planned("book_recs",
                [topic |-> IF "mystery" \in Words(text) THEN "mystery" ELSE "fiction",
                 limit |-> IF book_match(text) # None THEN int(book_match(text)) ELSE 2]) >>
    ELSE << >>

JokeCalls(text) ==
    IF "joke" \in Words(text) THEN << Planned("random_joke", << >>) >> ELSE << >>

DogCalls(text) ==
    IF "dog" \in Words(text) THEN << Planned("random_dog", << >>) >> ELSE << >>

TriviaCalls(text) ==
    IF "trivia" \in Words(text) \/ "question" \in Words(text)
    THEN << Planned("trivia", << >>) >>
    ELSE << >>

SelectedJokeFirst(text) ==
    JokeCalls(text) \o WeatherCalls(text) \o BookCalls(text) \o DogCalls(text)
        \o TriviaCalls(text)

\* tool_calls as the five rules build it.
Selected(text) ==
    WeatherCalls(text) \o BookCalls(text) \o JokeCalls(text) \o DogCalls(text)
        \o TriviaCalls(text)

\* What session.call_tool may do: return the text of a JSON object, return
\* other text, return text that starts like an object and is none, or raise.
SimpleOutcomes == {"object", "text", "broken", "raises"}

\* What a call leaves in results[tname].
Recorded(call) ==
    CASE call = "object" -> [ok |-> "true"]
      [] call = "text" -> [text |-> "no object"]
      [] call = "broken" -> [error |-> "Expecting value"]
      [] call = "raises" -> [error |-> "boom"]

\* results[tname] = value.
SetItem(dict, key, value) ==
    [k \in (DOMAIN dict) \cup {key} |-> IF k = key THEN value ELSE dict[k]]

\* input(), the exit test, and the five rules.
SimpleInput(text) ==
    /\ simple_pc = "input"
    /\ requests < MaxRequests
    /\ IF IsExit(Strip(text))
       THEN /\ simple_pc' = "exited"
            /\ UNCHANGED << user, simple_tool_calls, results, call_idx, called, chats,
                            answered, requests >>
       ELSE /\ user' = Strip(text)
            /\ simple_tool_calls' = Selected(user')
            /\ results' = << >>
            /\ call_idx' = 1
            /\ called' = << >>
            /\ chats' = 0
            /\ answered' = FALSE
            /\ requests' = requests + 1
            /\ simple_pc' = IF simple_tool_calls' = << >> THEN "input" ELSE "calls"
    /\ UNCHANGED << agent_vars, fun_vars >>

\* One pass of the loop over tool_calls.
SimpleCall(call) ==
    /\ simple_pc = "calls"
    /\ LET tname == simple_tool_calls[call_idx].tname
       IN  /\ called' = Append(called, tname)
           /\ results' = SetItem(results, tname, Recorded(call))
    /\ call_idx' = call_idx + 1
    /\ simple_pc' = IF call_idx = Len(simple_tool_calls) THEN "chat" ELSE "calls"
    /\ UNCHANGED << user, simple_tool_calls, chats, answered, requests,
                    agent_vars, fun_vars >>

\* chat() returns and the answer is printed.
SimpleChat ==
    /\ simple_pc = "chat"
    /\ chats' = chats + 1
    /\ answered' = TRUE
    /\ simple_pc' = "input"
    /\ UNCHANGED << user, simple_tool_calls, results, call_idx, called, requests,
                    agent_vars, fun_vars >>

\* chat() raises: nothing catches it.
SimpleChatFails ==
    /\ simple_pc = "chat"
    /\ chats' = chats + 1
    /\ simple_pc' = "crashed"
    /\ UNCHANGED << user, simple_tool_calls, results, call_idx, called, answered,
                    requests, agent_vars, fun_vars >>

NextSimple ==
    \/ \E text \in SimpleInputs : SimpleInput(text)
    \/ \E call \in SimpleOutcomes : SimpleCall(call)
    \/ SimpleChat
    \/ SimpleChatFails

SpecSimple == Init /\ [][NextSimple]_vars

\* The fixed order of the five rules.
RuleOrder == << "get_weather", "book_recs", "random_joke", "random_dog", "trivia" >>

RulePosition(tname) == CHOOSE i \in 1..Len(RuleOrder) : RuleOrder[i] = tname

\* The loop over tool_calls of the current request is over.
RequestOver == simple_pc = "input" /\ requests > 0

\* C35: a request calls each tool at most once, in the order get_weather,
\* book_recs, random_joke, random_dog, trivia; a call that raises is recorded
\* as an {error} result and the remaining calls are made; the model is called
\* exactly once when at least one tool was selected, and neither a tool nor the
\* model is called when none was.
C35_ToolsOnceInOrder ==
    /\ [](\A i \in 1..Len(called) :
             /\ called[i] \in tool_index
             /\ \A j \in 1..Len(called) :
                    i < j => RulePosition(called[i]) < RulePosition(called[j]))
    /\ [](chats <= 1)
    /\ [](simple_pc = "chat" => Len(called) = Len(simple_tool_calls))
    /\ [](RequestOver =>
             IF simple_tool_calls = << >>
             THEN called = << >> /\ chats = 0
             ELSE Len(called) = Len(simple_tool_calls) /\ chats = 1)
    /\ [][SimpleCall("raises") =>
              /\ results'[simple_tool_calls[call_idx].tname] = [error |-> "boom"]
              /\ call_idx < Len(simple_tool_calls) =>
                     /\ simple_pc' = "calls"
                     /\ call_idx' = call_idx + 1]_vars

\* All five tools were called in order, the call of book_recs raised and left
\* its {error}, the later calls were made, and the model was called once.
C35_Witness ==
    /\ RequestOver
    /\ called = RuleOrder
    /\ DOMAIN results = tool_index
    /\ results["book_recs"] = [error |-> "boom"]
    /\ results["trivia"] = [ok |-> "true"]
    /\ chats = 1
    /\ answered

====
